---------------------------- MODULE Spec2Model ----------------------------
(***************************************************************************)
(* The rescue Fiat-Shamir transcript gadget (RescueTranscriptVar) of the    *)
(* plonk verifier circuit, together with the field conversion helpers of    *)
(* jf-utils it is compared against.                                         *)
(*                                                                          *)
(* A field element is the value of into_repr().to_bytes_le(): a sequence    *)
(* of bytes, least significant first, 8 bytes per 64-bit limb, whose        *)
(* integer is below the modulus.  Integers of 253 and 377 bits do not fit   *)
(* a machine integer, so all arithmetic is done on these byte sequences.    *)
(***************************************************************************)
EXTENDS Integers, Sequences, FiniteSets, TLC

(***************************************************************************)
(* Little-endian byte strings as integers                                   *)
(***************************************************************************)

\* The sequence with the elements of function f on 1..n, as an explicit tuple.
AsSeq(f) == SubSeq(f, 1, Len(f))

ZeroBytes(n) == AsSeq([i \in 1..n |-> 0])

\* Vec::resize(n, 0u8) and slicing [0..n]: cut to n bytes or extend with zeros.
Resize(b, n) == IF n <= Len(b) THEN SubSeq(b, 1, n) ELSE b \o ZeroBytes(n - Len(b))

MaxOf(S) == CHOOSE i \in S : \A j \in S : j <= i

\* Digit i of a digit string, zero beyond its end.
At(a, i) == IF i <= Len(a) THEN a[i] ELSE 0

\* The low k digits of a are below the low k digits of b (as integers): at the
\* highest digit where they differ, found from the top, a has the smaller one.
LtLow(a, b, k) ==
    /\ \E i \in 1..k : At(a, i) # At(b, i)
    /\ LET d == CHOOSE d \in 0..(k - 1) :
                    /\ At(a, k - d) # At(b, k - d)
                    /\ \A j \in (k - d + 1)..k : At(a, j) = At(b, j)
       IN  At(a, k - d) < At(b, k - d)

\* The integer of a is below the integer of b (lengths may differ).
LtLE(a, b) == LtLow(a, b, IF Len(a) > Len(b) THEN Len(a) ELSE Len(b))

\* Same integer, whatever the number of trailing zero bytes.
EqLE(a, b) == ~LtLE(a, b) /\ ~LtLE(b, a)

\* Number of bits of a byte, and of a byte string.
ByteBits(x) == IF x = 0 THEN 0 ELSE MaxOf({k \in 1..8 : x >= 2^(k-1)})

BitLen(b) ==
    LET NZ == {i \in 1..Len(b) : b[i] # 0}
    IN  IF NZ = {} THEN 0 ELSE 8 * (MaxOf(NZ) - 1) + ByteBits(b[MaxOf(NZ)])

\* Long arithmetic is done on digits of three bytes (base 2^24).
Base == 256 * 256 * 256

ToDigits(b) ==
    AsSeq([j \in 1..((Len(b) + 2) \div 3) |->
              At(b, 3*j - 2) + 256 * At(b, 3*j - 1) + 65536 * At(b, 3*j)])

ToBytes(d, n) ==
    AsSeq([i \in 1..n |-> (At(d, ((i - 1) \div 3) + 1) \div 256^((i - 1) % 3)) % 256])

\* 2*a + bit, in Len(a) digits.
DoubleAdd(a, bit) ==
    AsSeq([i \in 1..Len(a) |->
              (2 * a[i] + (IF i = 1 THEN bit ELSE a[i-1] \div (Base \div 2))) % Base])

\* a - b for a >= b: digit i borrows when the digits below it are smaller in a.
SubLE(a, b) ==
    AsSeq([i \in 1..Len(a) |->
              (a[i] - At(b, i) - (IF LtLow(a, b, i - 1) THEN 1 ELSE 0) + Base) % Base])

\* One step of binary long division: (2*acc + bit) mod m, for acc < m.
ModStep(acc, bit, m) ==
    LET t == DoubleAdd(acc, bit)
    IN  IF LtLE(t, m) THEN t ELSE SubLE(t, m)

\* Eight steps: (256*acc + byte) mod m, most significant bit first.
ModByte(acc, byte, m) ==
    LET Bit(k) == (byte \div 2^k) % 2
    IN  ModStep(ModStep(ModStep(ModStep(ModStep(ModStep(ModStep(ModStep(
            acc, Bit(7), m), Bit(6), m), Bit(5), m), Bit(4), m),
            Bit(3), m), Bit(2), m), Bit(1), m), Bit(0), m)

\* Long division over bytes b[lo..hi], most significant first, starting from
\* the remainder acc of the bytes above hi; m and the result are in digits.
\* The range is halved so that the nesting stays logarithmic in its length.
RECURSIVE ModRange(_, _, _, _, _)
ModRange(b, m, lo, hi, acc) ==
    IF lo = hi THEN ModByte(acc, b[lo], m)
    ELSE LET mid == (lo + hi) \div 2
         IN  CHOOSE r \in {ModRange(b, m, lo, mid, upper) :
                              upper \in {ModRange(b, m, mid + 1, hi, acc)}} : TRUE

\* The integer of byte string b modulo the integer of byte string m, in
\* Len(m) bytes.
ModLE(b, m) ==
    IF LtLE(b, m) THEN Resize(b, Len(m))
    ELSE LET md == ToDigits(m \o <<0>>)
         IN  ToBytes(ModRange(b, md, 1, Len(b), ToDigits(ZeroBytes(Len(md) * 3))), Len(m))

(***************************************************************************)
(* Prime fields (ark_ff::PrimeField)                                        *)
(***************************************************************************)

\* A prime field is given by its modulus; its bit size is that of the modulus.
PrimeField(modulus) == [modulus |-> modulus, bits |-> BitLen(modulus)]

\* BLS12-377 scalar field, modulus
\* 8444461749428370424248824938781546531375899335154063827935233455917409239041
Bls12_377_Fr == PrimeField(
    <<1, 0, 0, 0, 0, 128, 17, 10, 1, 0, 0, 208, 254, 118, 170, 89,
      1, 176, 55, 92, 30, 77, 180, 96, 86, 165, 44, 154, 94, 101, 171, 18>>)

\* BLS12-377 base field, the field F of the verifier circuit.
Bls12_377_Fq == PrimeField(
    <<1, 0, 0, 0, 0, 192, 8, 133, 0, 0, 0, 48, 68, 93, 11, 23,
      0, 72, 9, 186, 47, 98, 243, 30, 143, 19, 245, 0, 243, 217, 34, 26,
      59, 73, 161, 108, 192, 5, 59, 198, 234, 16, 197, 23, 70, 58, 174, 1>>)

\* BLS12-381 scalar field, modulus
\* 52435875175126190479447740508185965837690552500527637822603658699938581184513
Bls12_381_Fr == PrimeField(
    <<1, 0, 0, 0, 255, 255, 255, 255, 254, 91, 254, 255, 2, 164, 189, 83,
      5, 216, 161, 9, 8, 216, 57, 51, 72, 125, 157, 41, 83, 167, 237, 115>>)

\* BLS12-381 base field
Bls12_381_Fq == PrimeField(
    <<171, 170, 255, 255, 255, 255, 254, 185, 255, 255, 83, 177, 254, 255, 171, 30,
      36, 246, 176, 246, 160, 210, 48, 103, 191, 18, 133, 243, 132, 75, 119, 100,
      215, 172, 75, 67, 182, 167, 27, 75, 154, 230, 127, 57, 234, 17, 1, 26>>)

\* Scalar field of the twisted Edwards curve on BLS12-377 (jubjub377), modulus
\* 2111115437357092606062206234695386632838870926408408195193685246394721360383
EdOnBls12_377_Fr == PrimeField(
    <<255, 217, 63, 195, 154, 238, 90, 185, 254, 138, 60, 196, 175, 163, 147, 82,
      0, 236, 13, 151, 71, 19, 45, 152, 85, 41, 139, 166, 87, 217, 170, 4>>)

\* Scalar field of jubjub (on BLS12-381), modulus
\* 6554484396890773809930967563523245729705921265872317281365359162392183254199
EdOnBls12_381_Fr == PrimeField(
    <<183, 44, 247, 214, 94, 14, 151, 208, 130, 16, 200, 204, 147, 32, 104, 166,
      0, 59, 52, 1, 1, 59, 103, 6, 169, 175, 51, 101, 234, 180, 125, 14>>)

\* Two more instances of F: PrimeField, which the conversions accept as any
\* other: a field whose size is a multiple of 8 bits (the base field of
\* secp256k1, 2^256 - 2^32 - 977) and one of more than 384 bits (the base
\* field of secp521r1, 2^521 - 1).
Secp256k1_Fq == PrimeField(
    <<47, 252, 255, 255, 254, 255, 255, 255, 255, 255, 255, 255, 255, 255, 255, 255,
      255, 255, 255, 255, 255, 255, 255, 255, 255, 255, 255, 255, 255, 255, 255, 255>>)

Secp521r1_Fq == PrimeField(AsSeq([i \in 1..66 |-> IF i = 66 THEN 1 ELSE 255]))

\* F::size_in_bits()
size_in_bits(F) == F.bits

\* Bytes of into_repr().to_bytes_le(): 8 per 64-bit limb.
ReprLen(F) == 8 * ((size_in_bits(F) + 63) \div 64)

\* F::from_le_bytes_mod_order(bytes)
from_le_bytes_mod_order(F, bytes) == Resize(ModLE(bytes, F.modulus), ReprLen(F))

\* x is an element of F in its byte representation.
IsElem(F, x) ==
    /\ Len(x) = ReprLen(F)
    /\ \A i \in 1..Len(x) : x[i] \in 0..255
    /\ LtLE(x, F.modulus)

(***************************************************************************)
(* jf-utils: field conversions                                             *)
(***************************************************************************)

\* A conversion either returns an element or fails an assertion (panics).
Returned(x) == [panic |-> FALSE, val |-> x]
Panicked == [panic |-> TRUE, val |-> <<>>]

\* Faulty variant of fr_to_fq: the bytes are read most significant first.
fr_to_fq_be(F, S, scalar) ==
    from_le_bytes_mod_order(F, AsSeq([i \in 1..Len(scalar) |-> scalar[Len(scalar) + 1 - i]]))

\* fr_to_fq::<F, P>(scalar): F is P::BaseField, S is P::ScalarField.
fr_to_fq(F, S, scalar) == from_le_bytes_mod_order(F, scalar)

\* fq_to_fr::<F, P>(base)
fq_to_fr(F, S, base) == from_le_bytes_mod_order(S, base)

\* Faulty variants of fq_to_fr_with_mask: the length is rounded up to whole
\* bytes; the slice starts one byte late.
fq_to_fr_with_mask_ceil(F, T, base) ==
    IF ~(size_in_bits(T) < size_in_bits(F)) THEN Panicked
    ELSE LET length == (size_in_bits(T) + 7) \div 8
         IN  Returned(from_le_bytes_mod_order(T, SubSeq(base, 1, length)))

fq_to_fr_with_mask_late(F, T, base) ==
    IF ~(size_in_bits(T) < size_in_bits(F)) THEN Panicked
    ELSE LET length == size_in_bits(T) \div 8
         IN  Returned(from_le_bytes_mod_order(T, SubSeq(base, 2, length + 1)))

\* fq_to_fr_with_mask::<F, T>(base)
fq_to_fr_with_mask(F, T, base) ==
    IF ~(size_in_bits(T) < size_in_bits(F)) THEN Panicked
    ELSE LET length == size_in_bits(T) \div 8
         IN  Returned(from_le_bytes_mod_order(T, SubSeq(base, 1, length)))

\* field_switching::<F, T>(base)
field_switching(F, T, base) ==
    LET bytes == base
        t == from_le_bytes_mod_order(T, bytes)
        bytes_rec == t
        length == IF Len(bytes) < Len(bytes_rec) THEN Len(bytes) ELSE Len(bytes_rec)
    IN  IF SubSeq(bytes_rec, 1, length) = SubSeq(bytes, 1, length)
        THEN Returned(t) ELSE Panicked

\* A stand-in for the 64-byte digest of Sha512: a fixed function of the input.
Sha512(bytes) ==
    LET n == Len(bytes)
        sum == IF n = 0 THEN 0
               ELSE LET RECURSIVE Sum(_)
                        Sum(i) == IF i = 0 THEN 0 ELSE (31 * Sum(i - 1) + bytes[i]) % 65521
                    IN  Sum(n)
    IN  AsSeq([j \in 1..64 |-> (sum * (2 * j + 1) + 167 * j + n + 255) % 256])

\* Faulty variant of hash_to_field: the 128 extra bits are not taken.
hash_to_field_short(F, bytes) ==
    LET rand_byte_len == (size_in_bits(F) + 7) \div 8
        digest == Sha512(bytes)
    IN  IF rand_byte_len > Len(digest) THEN Panicked
        ELSE Returned(from_le_bytes_mod_order(F, SubSeq(digest, 1, rand_byte_len)))

\* hash_to_field::<_, F>(bytes); a slice beyond the digest's end panics.
hash_to_field(F, bytes) ==
    LET rand_byte_len == (size_in_bits(F) + 7) \div 8 + 128 \div 8
        digest == Sha512(bytes)
    IN  IF rand_byte_len > Len(digest) THEN Panicked
        ELSE Returned(from_le_bytes_mod_order(F, SubSeq(digest, 1, rand_byte_len)))

\* Faulty variants of bytes_to_field_elements: the padded length always adds
\* a trunk; the trunk length is rounded up to whole bytes.
bytes_to_field_elements_extra(F, bytes) ==
    LET trunk_length == size_in_bits(F) \div 8
        padded_length == ((Len(bytes) \div trunk_length) + 1) * trunk_length
        padded_bytes == Resize(bytes, padded_length)
    IN  AsSeq([k \in 1..(padded_length \div trunk_length) |->
                 from_le_bytes_mod_order(F,
                     SubSeq(padded_bytes, (k - 1) * trunk_length + 1, k * trunk_length))])

bytes_to_field_elements_ceil(F, bytes) ==
    LET trunk_length == (size_in_bits(F) + 7) \div 8
        padded_length ==
            ((Len(bytes) + trunk_length - 1) \div trunk_length) * trunk_length
        padded_bytes == Resize(bytes, padded_length)
    IN  AsSeq([k \in 1..(padded_length \div trunk_length) |->
                 from_le_bytes_mod_order(F,
                     SubSeq(padded_bytes, (k - 1) * trunk_length + 1, k * trunk_length))])

\* bytes_to_field_elements::<_, F>(bytes)
bytes_to_field_elements(F, bytes) ==
    LET trunk_length == size_in_bits(F) \div 8
        padded_length ==
            ((Len(bytes) + trunk_length - 1) \div trunk_length) * trunk_length
        padded_bytes == Resize(bytes, padded_length)
    IN  AsSeq([k \in 1..(padded_length \div trunk_length) |->
                 from_le_bytes_mod_order(F,
                     SubSeq(padded_bytes, (k - 1) * trunk_length + 1, k * trunk_length))])

(***************************************************************************)
(* Collaborators of the transcript: the constraint system, the rescue       *)
(* sponge, the truncation gadget and the limb representation FpElemVar.     *)
(* Only what the transcript uses of them is modelled.                       *)
(***************************************************************************)

\* The circuit field F: RescueParameter + SWToTEConParam.
CircuitField == Bls12_377_Fq

STATE_SIZE == 4

FZero == ZeroBytes(ReprLen(CircuitField))
FOne == <<1>> \o ZeroBytes(ReprLen(CircuitField) - 1)

\* PlonkCircuit: the witness of variable v is witness[v + 1]; variables 0 and
\* 1 are the constants zero and one.  lookup: built by new_ultra_plonk.
PlonkCircuit_new(lookup) == [witness |-> <<FZero, FOne>>, lookup |-> lookup]

zero(circuit) == 0
one(circuit) == 1
num_vars(circuit) == Len(circuit.witness)
witness(circuit, var) == circuit.witness[var + 1]
Witnesses(circuit, vars) == AsSeq([i \in 1..Len(vars) |-> witness(circuit, vars[i])])
support_lookup(circuit) == circuit.lookup

create_variable(circuit, val) ==
    [circuit |-> [circuit EXCEPT !.witness = Append(@, val)],
     var |-> num_vars(circuit)]

\* A stand-in for the rescue permutation: a digest of the padded input, spread
\* over num_output field elements.  It is a function of the whole input, order
\* included; the native and the in-circuit sponge compute the same function.
ElemDigest(e) ==
    (e[1] + 3 * e[2] + 5 * e[16] + 7 * e[31] + 11 * e[32] + 13 * e[33]
       + 17 * e[47] + 19 * e[48]) % 65521

RECURSIVE Absorb(_, _)
Absorb(h, data) ==
    IF data = <<>> THEN h
    ELSE Absorb((31 * h + ElemDigest(Head(data)) + 1) % 65521, Tail(data))

Squeeze(h, s) ==
    AsSeq([j \in 1..ReprLen(CircuitField) |->
              IF j = 48 THEN (h + s) % 2
              ELSE IF j = 47 THEN (h + 3 * s) % 174
              ELSE (h * (2 * s + 1) + 37 * j * s + j * j) % 256])

\* Padding of sponge_with_padding: a one, then zeros up to a multiple of the rate.
PadRescue(data) ==
    LET rate == STATE_SIZE - 1
        n == ((Len(data) + 1 + rate - 1) \div rate) * rate
    IN  data \o <<FOne>> \o AsSeq([i \in 1..(n - Len(data) - 1) |-> FZero])

RescueSponge(data, num_output) ==
    LET h == Absorb(Len(data), PadRescue(data))
    IN  AsSeq([s \in 1..num_output |-> Squeeze(h, s)])

\* circuit.rescue_sponge_with_padding(data_vars, num_output): a Result; ok is
\* the gadget's outcome.  On success the outputs are fresh variables.
rescue_sponge_with_padding(circuit, data_vars, num_output, ok) ==
    IF ~ok THEN [res |-> "Err", circuit |-> circuit, out |-> <<>>]
    ELSE [res |-> "Ok",
          circuit |-> [circuit EXCEPT !.witness =
                          @ \o RescueSponge(Witnesses(circuit, data_vars), num_output)],
          out |-> AsSeq([i \in 1..num_output |-> num_vars(circuit) + i - 1])]

\* The low bit_length bits of a field element.
TruncateBits(x, bit_length) ==
    AsSeq([i \in 1..Len(x) |->
              IF 8 * i <= bit_length THEN x[i]
              ELSE IF 8 * (i - 1) >= bit_length THEN 0
              ELSE x[i] % 2^(bit_length - 8 * (i - 1))])

\* circuit.truncate(a, bit_length): a Result; on success a fresh variable
\* constrained to the low bit_length bits of a.
truncate(circuit, a, bit_length, ok) ==
    IF ~ok THEN [res |-> "Err", circuit |-> circuit, var |-> 0]
    ELSE [res |-> "Ok",
          circuit |-> [circuit EXCEPT !.witness =
                          Append(@, TruncateBits(witness(circuit, a), bit_length))],
          var |-> num_vars(circuit)]

\* PointVariable(x, y)
get_x(point) == point[1]
get_y(point) == point[2]

\* FpElemVar: a value held in two limbs of m bits, value = lo + 2^m * hi.
\* FpElemVar::new_unchecked(circuit, var, m, None) splits the witness of var.
new_unchecked(circuit, var, m) ==
    LET x == witness(circuit, var)
        lo == Resize(SubSeq(x, 1, m \div 8), Len(x))
        hi == Resize(SubSeq(x, (m \div 8) + 1, Len(x)), Len(x))
    IN  [circuit |-> [circuit EXCEPT !.witness = @ \o <<lo, hi>>],
         elem |-> [vars |-> <<num_vars(circuit), num_vars(circuit) + 1>>, m |-> m]]

\* e.convert_to_var(circuit): a Result; on success a fresh variable holding
\* lo + 2^m * hi (lo is below 2^m).
convert_to_var(circuit, e, ok) ==
    IF ~ok THEN [res |-> "Err", circuit |-> circuit, var |-> 0]
    ELSE LET lo == witness(circuit, e.vars[1])
             hi == witness(circuit, e.vars[2])
             val == from_le_bytes_mod_order(CircuitField,
                        SubSeq(lo, 1, e.m \div 8) \o hi)
         IN  [res |-> "Ok",
              circuit |-> [circuit EXCEPT !.witness = Append(@, val)],
              var |-> num_vars(circuit)]

(***************************************************************************)
(* RescueTranscriptVar                                                     *)
(*                                                                         *)
(* self is [transcript_var, state_var].  Every operation returns a record  *)
(* with res ("Ok", "Err", or "Panic" for an unwrap of an Err), the         *)
(* transcript afterwards, and, where it takes the circuit, the circuit     *)
(* afterwards and the gadget calls it made.                                *)
(***************************************************************************)

new(circuit) ==
    [transcript_var |-> <<>>,
     state_var |-> AsSeq([i \in 1..STATE_SIZE |-> zero(circuit)])]

Push(self, var) == [self EXCEPT !.transcript_var = Append(@, var)]

\* Faulty variant of append_variable: the label is absorbed too, as a
\* constant of the circuit chosen by the label (domain separation).
append_variable_labelled(self, label, var) ==
    [res |-> "Ok",
     self |-> Push(Push(self, IF label = "testing" THEN 0 ELSE 1), var)]

\* Faulty variant of append_variable: var goes to the front of the buffer.
append_variable_front(self, label, var) ==
    [res |-> "Ok", self |-> [self EXCEPT !.transcript_var = <<var>> \o @]]

\* append_variable(&mut self, _label, var)
append_variable(self, label, var) ==
    [res |-> "Ok", self |-> Push(self, var)]

\* Faulty variant of append_message_vars: the loop runs from the last element.
RECURSIVE append_message_vars_reversed(_, _, _)
append_message_vars_reversed(self, label, msg_vars) ==
    IF msg_vars = <<>> THEN [res |-> "Ok", self |-> self]
    ELSE LET r == append_variable(self, label, msg_vars[Len(msg_vars)])
         IN  IF r.res # "Ok" THEN r
             ELSE append_message_vars_reversed(r.self, label,
                                               SubSeq(msg_vars, 1, Len(msg_vars) - 1))

\* append_message_vars(&mut self, _label, msg_vars)
RECURSIVE append_message_vars(_, _, _)
append_message_vars(self, label, msg_vars) ==
    IF msg_vars = <<>> THEN [res |-> "Ok", self |-> self]
    ELSE LET r == append_variable(self, label, Head(msg_vars))
         IN  IF r.res # "Ok" THEN r
             ELSE append_message_vars(r.self, label, Tail(msg_vars))

\* Faulty variant of append_commitment_var: y is pushed before x.
append_commitment_var_y_first(self, label, poly_comm_var) ==
    [res |-> "Ok",
     self |-> Push(Push(self, get_y(poly_comm_var)), get_x(poly_comm_var))]

\* append_commitment_var(&mut self, _label, poly_comm_var)
append_commitment_var(self, label, poly_comm_var) ==
    [res |-> "Ok",
     self |-> Push(Push(self, get_x(poly_comm_var)), get_y(poly_comm_var))]

\* append_commitments_vars(&mut self, _label, poly_comm_vars)
RECURSIVE append_commitments_vars(_, _, _)
append_commitments_vars(self, label, poly_comm_vars) ==
    IF poly_comm_vars = <<>> THEN [res |-> "Ok", self |-> self]
    ELSE append_commitments_vars(
             Push(Push(self, get_x(Head(poly_comm_vars))), get_y(Head(poly_comm_vars))),
             label, Tail(poly_comm_vars))

\* append_challenge_var(&mut self, _label, challenge_var)
append_challenge_var(self, label, challenge_var) ==
    append_variable(self, label, challenge_var)

\* The two loops over vk_var.selector_comms and vk_var.sigma_comms.
RECURSIVE PushComms(_, _)
PushComms(self, comms) ==
    IF comms = <<>> THEN self
    ELSE PushComms(Push(Push(self, get_x(Head(comms))), get_y(Head(comms))), Tail(comms))

\* Faulty variant of the loop: the variable is pushed before the outcome of
\* its conversion is looked at, so a failed conversion leaves one more element
\* in the buffer.
RECURSIVE PushPubInput_push_first(_, _, _, _, _)
PushPubInput_push_first(self, circuit, pub_input, conv_ok, gadgets) ==
    IF pub_input = <<>>
    THEN [res |-> "Ok", self |-> self, circuit |-> circuit, gadgets |-> gadgets]
    ELSE LET c == convert_to_var(circuit, Head(pub_input), Head(conv_ok))
             g == Append(gadgets, [name |-> "convert_to_var", res |-> c.res,
                                   in |-> Head(pub_input), out |-> <<c.var>>])
         IN  IF c.res # "Ok"
             THEN [res |-> "Err", self |-> Push(self, c.var), circuit |-> c.circuit,
                   gadgets |-> g]
             ELSE PushPubInput_push_first(Push(self, c.var), c.circuit,
                                          Tail(pub_input), Tail(conv_ok), g)

\* The loop over pub_input; conv_ok[i] is the outcome of the i-th convert_to_var.
RECURSIVE PushPubInput(_, _, _, _, _)
PushPubInput(self, circuit, pub_input, conv_ok, gadgets) ==
    IF pub_input = <<>>
    THEN [res |-> "Ok", self |-> self, circuit |-> circuit, gadgets |-> gadgets]
    ELSE LET c == convert_to_var(circuit, Head(pub_input), Head(conv_ok))
             g == Append(gadgets, [name |-> "convert_to_var", res |-> c.res,
                                   in |-> Head(pub_input), out |-> <<c.var>>])
         IN  IF c.res # "Ok"
             THEN [res |-> "Err", self |-> self, circuit |-> c.circuit, gadgets |-> g]
             ELSE PushPubInput(Push(self, c.var), c.circuit, Tail(pub_input),
                               Tail(conv_ok), g)

\* Faulty variant of append_vk_and_pub_input_vars: the sigma commitments are
\* pushed before the selector commitments.
append_vk_and_pub_input_vars_sigma_first(self, circuit, vk_var, pub_input, conv_ok) ==
    PushPubInput(PushComms(PushComms(self, vk_var.sigma_comms), vk_var.selector_comms),
                 circuit, pub_input, conv_ok, <<>>)

\* append_vk_and_pub_input_vars(&mut self, circuit, vk_var, pub_input)
append_vk_and_pub_input_vars(self, circuit, vk_var, pub_input, conv_ok) ==
    PushPubInput(PushComms(PushComms(self, vk_var.selector_comms), vk_var.sigma_comms),
                 circuit, pub_input, conv_ok, <<>>)

\* A loop of append_proof_evaluations_vars run after the calls before it:
\* skipped when one of them has returned an error.
ThenPush(r, evals, conv_ok) ==
    CHOOSE next \in {IF done.res # "Ok" THEN done
                     ELSE PushPubInput(done.self, done.circuit, evals, conv_ok,
                                       done.gadgets) : done \in {r}} : TRUE

\* Faulty variant of append_proof_evaluations_vars: the sigma evaluations are
\* pushed before the wire evaluations.
append_proof_evaluations_vars_sigma_first(self, circuit, evals, conv_ok) ==
    LET ns == Len(evals.wire_sigma_evals)
        nw == Len(evals.wires_evals)
        start == [res |-> "Ok", self |-> self, circuit |-> circuit, gadgets |-> <<>>]
    IN  ThenPush(ThenPush(ThenPush(start,
                     evals.wire_sigma_evals, SubSeq(conv_ok, 1, ns)),
                     evals.wires_evals, SubSeq(conv_ok, ns + 1, ns + nw)),
                 <<evals.perm_next_eval>>, SubSeq(conv_ok, ns + nw + 1, ns + nw + 1))

\* append_proof_evaluations_vars(&mut self, circuit, evals): the loop over
\* wires_evals, the loop over wire_sigma_evals and the push of perm_next_eval,
\* each convert_to_var returning early on an error; conv_ok[i] is the outcome
\* of the i-th convert_to_var.
append_proof_evaluations_vars(self, circuit, evals, conv_ok) ==
    LET nw == Len(evals.wires_evals)
        ns == Len(evals.wire_sigma_evals)
        start == [res |-> "Ok", self |-> self, circuit |-> circuit, gadgets |-> <<>>]
    IN  ThenPush(ThenPush(ThenPush(start,
                     evals.wires_evals, SubSeq(conv_ok, 1, nw)),
                     evals.wire_sigma_evals, SubSeq(conv_ok, nw + 1, nw + ns)),
                 <<evals.perm_next_eval>>, SubSeq(conv_ok, nw + ns + 1, nw + ns + 1))

\* Faulty variant of the curve check: E is refused only when both sizes differ.
CurveUnsupported_both(E) ==
    size_in_bits(E.Fr) # 253 /\ size_in_bits(E.Fq) # 377

\* The curve check of get_and_append_challenge_var: TRUE when E is refused.
CurveUnsupported(E) ==
    size_in_bits(E.Fr) # 253 \/ size_in_bits(E.Fq) # 377

\* Faulty variant of step 1: hash(transcript|state).
input_var_swapped(self) == self.transcript_var \o self.state_var

\* step 1: the sponge input, hash(state|transcript)
input_var(self) == self.state_var \o self.transcript_var

\* Faulty variants of step 2: the challenge is taken from slot 1; the
\* truncation keeps the 253 bits of the scalar field.
out_var_slot1(res_var) == res_var[2]

ChallengeTruncate_253(circuit, var, ok) == truncate(circuit, var, 253, ok)

\* step 2: the output slot the challenge is taken from, and its truncation
out_var(res_var) == res_var[1]

ChallengeTruncate(circuit, var, ok) == truncate(circuit, var, 248, ok)

\* Faulty variant of step 3: the buffer is not reset before the challenge is
\* appended.
Finish_keep_buffer(self, label, res_var, challenge_var) ==
    append_challenge_var(
        [state_var |-> SubSeq(res_var, 1, STATE_SIZE),
         transcript_var |-> self.transcript_var],
        label, challenge_var)

\* step 3: finish and update the states
Finish(self, label, res_var, challenge_var) ==
    append_challenge_var(
        [state_var |-> SubSeq(res_var, 1, STATE_SIZE), transcript_var |-> <<>>],
        label, challenge_var)

\* Faulty variant of get_and_append_challenge_var: the state is updated and
\* the buffer cleared before the truncation, so an error of the truncation
\* leaves them changed.
get_and_append_challenge_var_eager(self, E, label, circuit, sponge_ok, trunc_ok) ==
    LET Fail(res, err, s, c, g) ==
            [res |-> res, err |-> err, self |-> s, circuit |-> c,
             ret |-> 0, gadgets |-> g]
    IN
    IF ~support_lookup(circuit)
    THEN Fail("Err", "does not support range table", self, circuit, <<>>)
    ELSE IF CurveUnsupported(E)
    THEN Fail("Err", "Curve Parameter does not support for rescue transcript circuit",
              self, circuit, <<>>)
    ELSE
    LET sponge == rescue_sponge_with_padding(circuit, input_var(self), STATE_SIZE, sponge_ok)
        g1 == <<[name |-> "rescue_sponge_with_padding", res |-> sponge.res,
                 in |-> input_var(self), out |-> sponge.out]>>
    IN
    IF sponge.res # "Ok" THEN Fail("Panic", "unwrap", self, sponge.circuit, g1)
    ELSE
    LET res_var == sponge.out
        updated == [state_var |-> SubSeq(res_var, 1, STATE_SIZE), transcript_var |-> <<>>]
        trunc == ChallengeTruncate(sponge.circuit, out_var(res_var), trunc_ok)
        g2 == Append(g1, [name |-> "truncate", res |-> trunc.res,
                          in |-> <<out_var(res_var)>>, out |-> <<trunc.var>>])
    IN
    IF trunc.res # "Ok" THEN Fail("Err", "truncate", updated, trunc.circuit, g2)
    ELSE
    LET fin == append_challenge_var(updated, label, trunc.var)
    IN  [res |-> "Ok", err |-> "", self |-> fin.self, circuit |-> trunc.circuit,
         ret |-> trunc.var, gadgets |-> g2]

\* get_and_append_challenge_var::<E>(&mut self, _label, circuit); sponge_ok and
\* trunc_ok are the outcomes of the two gadgets.
get_and_append_challenge_var(self, E, label, circuit, sponge_ok, trunc_ok) ==
    LET Fail(res, err, c, g) ==
            [res |-> res, err |-> err, self |-> self, circuit |-> c,
             ret |-> 0, gadgets |-> g]
    IN
    IF ~support_lookup(circuit)
    THEN Fail("Err", "does not support range table", circuit, <<>>)
    ELSE IF CurveUnsupported(E)
    THEN Fail("Err", "Curve Parameter does not support for rescue transcript circuit",
              circuit, <<>>)
    ELSE
    LET sponge == rescue_sponge_with_padding(circuit, input_var(self), STATE_SIZE, sponge_ok)
        g1 == <<[name |-> "rescue_sponge_with_padding", res |-> sponge.res,
                 in |-> input_var(self), out |-> sponge.out]>>
    IN
    IF sponge.res # "Ok" THEN Fail("Panic", "unwrap", sponge.circuit, g1)
    ELSE
    LET res_var == sponge.out
        trunc == ChallengeTruncate(sponge.circuit, out_var(res_var), trunc_ok)
        g2 == Append(g1, [name |-> "truncate", res |-> trunc.res,
                          in |-> <<out_var(res_var)>>, out |-> <<trunc.var>>])
    IN
    IF trunc.res # "Ok" THEN Fail("Err", "truncate", trunc.circuit, g2)
    ELSE
    LET challenge_var == trunc.var
        fin == Finish(self, label, res_var, challenge_var)
    IN  IF fin.res # "Ok"
        THEN [res |-> "Err", err |-> "append", self |-> fin.self,
              circuit |-> trunc.circuit, ret |-> 0, gadgets |-> g2]
        ELSE [res |-> "Ok", err |-> "", self |-> fin.self, circuit |-> trunc.circuit,
              ret |-> challenge_var, gadgets |-> g2]

(***************************************************************************)
(* The native transcript (RescueTranscript), the reference the gadget is   *)
(* compared against: the same protocol over field values.                  *)
(***************************************************************************)

RescueTranscript_new ==
    [transcript |-> <<>>, state |-> AsSeq([i \in 1..STATE_SIZE |-> FZero])]

NativePush(t, vals) == [t EXCEPT !.transcript = @ \o vals]

\* append_message(label, msg): the message as field elements
append_message(t, label, msg) ==
    NativePush(t, bytes_to_field_elements(CircuitField, msg))

\* append_commitments(label, comms): the coordinates of each point, x then y
RECURSIVE append_commitments(_, _, _)
append_commitments(t, label, comms) ==
    IF comms = <<>> THEN t
    ELSE append_commitments(NativePush(t, <<Head(comms)[1], Head(comms)[2]>>),
                            label, Tail(comms))

\* The public inputs, scalars of E, switched into the circuit field.
SwitchAll(E, xs) ==
    AsSeq([i \in 1..Len(xs) |-> field_switching(E.Fr, CircuitField, xs[i]).val])

\* append_vk_and_pub_input(vk, pub_input)
append_vk_and_pub_input(t, E, vk, pub_input) ==
    NativePush(append_commitments(append_commitments(t, "", vk.selector_comms),
                                  "", vk.sigma_comms),
               SwitchAll(E, pub_input))

\* append_proof_evaluations::<E>(evals): the evaluations, scalars of E
\* switched into the circuit field, wires, then sigmas, then perm_next
append_proof_evaluations(t, E, evals) ==
    NativePush(t, SwitchAll(E, evals.wires_evals \o evals.wire_sigma_evals
                                 \o <<evals.perm_next_eval>>))

\* get_and_append_challenge::<E>(label): the challenge is an element of E::Fr
get_and_append_challenge(t, E, label) ==
    LET tmp == RescueSponge(t.state \o t.transcript, STATE_SIZE)
        challenge == fq_to_fr_with_mask(CircuitField, E.Fr, tmp[1]).val
    IN  [challenge |-> challenge,
         t |-> [state |-> tmp,
                transcript |-> <<field_switching(E.Fr, CircuitField, challenge).val>>]]

(***************************************************************************)
(* The caller: a verifier circuit under construction, as in the tests of   *)
(* the module.  It holds message variables, point variables and public     *)
(* inputs in two limbs, and drives one RescueTranscriptVar and, beside it, *)
(* the native transcript with the same messages.                           *)
(***************************************************************************)

\* Number of transcript calls in a run.
MaxCalls == 3

Labels == {"testing", "plonk"}

\* PairingEngine E, given by its scalar field Fr and base field Fq: BLS12-377,
\* BLS12-381, and the two mixed configurations.
Engines == [Fr : {Bls12_377_Fr, Bls12_381_Fr}, Fq : {Bls12_377_Fq, Bls12_381_Fq}]

Msg0 == <<109, 101, 115, 115, 97, 103, 101, 32, 48>>    \* "message 0"
MsgLong == AsSeq([i \in 1..50 |-> 64 + i])
Messages == <<<<>>, Msg0, MsgLong>>

\* Sample elements of the circuit field and of the BLS12-377 scalar field.
SampleFq(k) ==
    AsSeq([j \in 1..48 |->
              IF j = 48 THEN k % 2
              ELSE IF j = 47 THEN (29 * k) % 174
              ELSE (7 * k * j + 13 * k + j) % 256])

SampleFr(k) ==
    AsSeq([j \in 1..32 |->
              IF j = 32 THEN (5 * k) % 18 ELSE (11 * k * j + 3 * k + j) % 256])

\* Commitments in TE form (x, y), and the public inputs (scalars).
Comms == << <<SampleFq(1), SampleFq(2)>>, <<SampleFq(3), SampleFq(4)>> >>
Input == <<SampleFr(1), SampleFr(2)>>

\* The variables the caller created for them, in creation order.
MsgVars == << <<>>, <<2>>, <<3, 4>> >>
PointVars == << <<5, 6>>, <<7, 8>> >>
InputVars == <<9, 10>>

SetupCircuit(lookup) ==
    LET c0 == PlonkCircuit_new(lookup)
        c1 == [c0 EXCEPT !.witness =
                  @ \o bytes_to_field_elements(CircuitField, Msg0)
                    \o bytes_to_field_elements(CircuitField, MsgLong)
                    \o Comms[1] \o Comms[2]
                    \o SwitchAll([Fr |-> Bls12_377_Fr, Fq |-> Bls12_377_Fq], Input)]
        e1 == new_unchecked(c1, InputVars[1], 128)
        e2 == new_unchecked(e1.circuit, InputVars[2], 128)
    IN  [circuit |-> e2.circuit, input_fp_elem_vars |-> <<e1.elem, e2.elem>>]

InputFpElemVars == SetupCircuit(TRUE).input_fp_elem_vars

\* Calls of append_vk_and_pub_input_vars: the dummy verifying key of the test
\* (no commitments) with no public input, and a full one with n public inputs.
VkCalls ==
    {[vk_var |-> [selector_comms |-> <<>>, sigma_comms |-> <<>>], n |-> 0],
     [vk_var |-> [selector_comms |-> <<PointVars[1], PointVars[2]>>,
                  sigma_comms |-> <<PointVars[2]>>], n |-> Len(Input)]}

\* The evaluations of a proof as indices into Input: two wires and one sigma,
\* and a record with no wire at all.
EvalIndices ==
    {[wires_evals |-> <<1, 2>>, wire_sigma_evals |-> <<2>>, perm_next_eval |-> 1],
     [wires_evals |-> <<>>, wire_sigma_evals |-> <<>>, perm_next_eval |-> 2]}

\* The record of FpElemVar and the record of field values of such evaluations.
ProofEvaluationsVar(ix) ==
    [wires_evals |-> AsSeq([i \in 1..Len(ix.wires_evals) |->
                               InputFpElemVars[ix.wires_evals[i]]]),
     wire_sigma_evals |-> AsSeq([i \in 1..Len(ix.wire_sigma_evals) |->
                               InputFpElemVars[ix.wire_sigma_evals[i]]]),
     perm_next_eval |-> InputFpElemVars[ix.perm_next_eval]]

ProofEvaluations(ix) ==
    [wires_evals |-> AsSeq([i \in 1..Len(ix.wires_evals) |->
                               Input[ix.wires_evals[i]]]),
     wire_sigma_evals |-> AsSeq([i \in 1..Len(ix.wire_sigma_evals) |->
                               Input[ix.wire_sigma_evals[i]]]),
     perm_next_eval |-> Input[ix.perm_next_eval]]

\* Calls of append_proof_evaluations_vars: the record passed to the circuit
\* transcript and the values the native transcript is given beside it.
EvalCalls ==
    {[evals |-> ProofEvaluationsVar(ix), values |-> ProofEvaluations(ix)] :
        ix \in EvalIndices}

\* Variables passed to append_variable and append_challenge_var.
CallerVars == {0, 2}

\* Sequences of point variables passed to append_commitments_vars.
PointSeqs == {<<>>, <<PointVars[2], PointVars[1]>>}

VARIABLES
    circuit,        \* the PlonkCircuit being built
    transcript_var, \* RescueTranscriptVar.transcript_var
    state_var,      \* RescueTranscriptVar.state_var
    transcript,     \* the native RescueTranscript run beside it
    challenge,      \* the last challenge the native transcript returned
    mirrored,       \* the native transcript has seen the same appends
    last,           \* the last call: operation, arguments, result, gadget calls
    derived,        \* the last successful derivation, the appends since, and
                    \* the same of the derivation before it
    calls,          \* number of calls made
    conv            \* the last call of a conversion of jf-utils, on its own

\* The variables of the transcript run.
tvars == <<circuit, transcript_var, state_var, transcript, challenge, mirrored,
           last, derived, calls>>

vars == <<tvars, conv>>

\* No conversion has been called.
NoConv == [fn |-> "none"]

Self == [transcript_var |-> transcript_var, state_var |-> state_var]

Init ==
    /\ \E lookup \in BOOLEAN : circuit = SetupCircuit(lookup).circuit
    /\ transcript_var = new(circuit).transcript_var
    /\ state_var = new(circuit).state_var
    /\ transcript = RescueTranscript_new
    /\ challenge = <<>>
    /\ mirrored = TRUE
    /\ last = [op |-> "new", args |-> <<>>, res |-> "Ok", err |-> "", ret |-> 0,
               pre |-> new(circuit), gadgets |-> <<>>]
    /\ derived = [n |-> 0, out |-> <<>>, challenge_var |-> 0, since |-> <<>>,
                  before |-> [out |-> <<>>, challenge_var |-> 0, since |-> <<>>]]
    /\ calls = 0
    /\ conv = NoConv

\* The process is alive (no unwrap has panicked) and may make another call.
Running == last.res # "Panic" /\ calls < MaxCalls

\* What every call leaves behind: the transcript after it and the record of it.
Returns(op, args, r, err, ret, gadgets) ==
    /\ transcript_var' = r.self.transcript_var
    /\ state_var' = r.self.state_var
    /\ last' = [op |-> op, args |-> args, res |-> r.res, err |-> err, ret |-> ret,
                pre |-> Self, gadgets |-> gadgets]
    /\ mirrored' = (mirrored /\ (r.res = "Ok" \/ r.self = Self))
    /\ calls' = calls + 1
    /\ UNCHANGED conv

\* An append: the variables it pushed are pending for the next derivation.
Pending(r) ==
    derived' = [derived EXCEPT !.since =
                   @ \o SubSeq(r.self.transcript_var, Len(transcript_var) + 1,
                               Len(r.self.transcript_var))]

AppendVariable ==
    /\ Running
    /\ \E label \in Labels, var \in CallerVars :
        \E r \in {append_variable(Self, label, var)} :
        /\ Returns("append_variable", <<var>>, r, "", 0, <<>>)
        /\ Pending(r)
        /\ transcript' = NativePush(transcript, <<witness(circuit, var)>>)
        /\ UNCHANGED <<circuit, challenge>>

AppendChallengeVar ==
    /\ Running
    /\ \E label \in Labels, var \in CallerVars :
        \E r \in {append_challenge_var(Self, label, var)} :
        /\ Returns("append_challenge_var", <<var>>, r, "", 0, <<>>)
        /\ Pending(r)
        /\ transcript' = NativePush(transcript, <<witness(circuit, var)>>)
        /\ UNCHANGED <<circuit, challenge>>

AppendMessageVars ==
    /\ Running
    /\ \E label \in Labels, k \in 1..Len(Messages) :
        \E r \in {append_message_vars(Self, label, MsgVars[k])} :
        /\ Returns("append_message_vars", MsgVars[k], r, "", 0, <<>>)
        /\ Pending(r)
        /\ transcript' = append_message(transcript, label, Messages[k])
        /\ UNCHANGED <<circuit, challenge>>

AppendCommitmentVar ==
    /\ Running
    /\ \E label \in Labels, k \in 1..Len(PointVars) :
        \E r \in {append_commitment_var(Self, label, PointVars[k])} :
        /\ Returns("append_commitment_var", PointVars[k], r, "", 0, <<>>)
        /\ Pending(r)
        /\ transcript' = append_commitments(transcript, label, <<Comms[k]>>)
        /\ UNCHANGED <<circuit, challenge>>

\* The values of a sequence of point variables.
PointValues(points) ==
    AsSeq([i \in 1..Len(points) |->
              <<witness(circuit, get_x(points[i])), witness(circuit, get_y(points[i]))>>])

AppendCommitmentsVars ==
    /\ Running
    /\ \E label \in Labels, points \in PointSeqs :
        \E r \in {append_commitments_vars(Self, label, points)} :
        /\ Returns("append_commitments_vars", points, r, "", 0, <<>>)
        /\ Pending(r)
        /\ transcript' = append_commitments(transcript, label, PointValues(points))
        /\ UNCHANGED <<circuit, challenge>>

AppendVkAndPubInputVars ==
    /\ Running
    /\ \E call \in VkCalls, fail_at \in 0..Len(Input) :
        /\ fail_at <= call.n
        /\ \E r \in {append_vk_and_pub_input_vars(Self, circuit, call.vk_var,
                         SubSeq(InputFpElemVars, 1, call.n),
                         [i \in 1..call.n |-> i # fail_at])} :
            /\ Returns("append_vk_and_pub_input_vars",
                       [vk_var |-> call.vk_var,
                        pub_input |-> SubSeq(InputFpElemVars, 1, call.n)],
                       r, "", 0, r.gadgets)
            /\ Pending(r)
            /\ circuit' = r.circuit
            /\ transcript' =
                  IF r.res = "Ok"
                  THEN append_vk_and_pub_input(transcript,
                           [Fr |-> Bls12_377_Fr, Fq |-> Bls12_377_Fq],
                           [selector_comms |-> PointValues(call.vk_var.selector_comms),
                            sigma_comms |-> PointValues(call.vk_var.sigma_comms)],
                           SubSeq(Input, 1, call.n))
                  ELSE transcript
            /\ UNCHANGED challenge

AppendProofEvaluationsVars ==
    /\ Running
    /\ \E call \in EvalCalls, fail_at \in 0..4 :
        \E n \in {Len(call.evals.wires_evals) + Len(call.evals.wire_sigma_evals) + 1} :
        /\ fail_at <= n
        /\ \E r \in {append_proof_evaluations_vars(Self, circuit, call.evals,
                         [i \in 1..n |-> i # fail_at])} :
            /\ Returns("append_proof_evaluations_vars", call.evals, r, "", 0, r.gadgets)
            /\ Pending(r)
            /\ circuit' = r.circuit
            /\ transcript' =
                  IF r.res = "Ok"
                  THEN append_proof_evaluations(transcript,
                           [Fr |-> Bls12_377_Fr, Fq |-> Bls12_377_Fq], call.values)
                  ELSE transcript
            /\ UNCHANGED challenge

GetAndAppendChallengeVar ==
    /\ Running
    /\ \E E \in Engines, label \in Labels, sponge_ok \in BOOLEAN, trunc_ok \in BOOLEAN :
        \E r \in {get_and_append_challenge_var(Self, E, label, circuit,
                                                sponge_ok, trunc_ok)} :
        /\ Returns("get_and_append_challenge_var", [E |-> E], r, r.err, r.ret, r.gadgets)
        /\ circuit' = r.circuit
        /\ IF r.res = "Ok"
           THEN /\ \E native \in {get_and_append_challenge(transcript, E, label)} :
                    /\ transcript' = native.t
                    /\ challenge' = native.challenge
                /\ derived' = [n |-> derived.n + 1, out |-> r.gadgets[1].out,
                               challenge_var |-> r.ret, since |-> <<>>,
                               before |-> [out |-> derived.out,
                                           challenge_var |-> derived.challenge_var,
                                           since |-> derived.since]]
           ELSE UNCHANGED <<transcript, challenge, derived>>

Next ==
    \/ AppendVariable
    \/ AppendChallengeVar
    \/ AppendMessageVars
    \/ AppendCommitmentVar
    \/ AppendCommitmentsVars
    \/ AppendVkAndPubInputVars
    \/ AppendProofEvaluationsVars
    \/ GetAndAppendChallengeVar

Spec == Init /\ [][Next]_vars

(***************************************************************************)
(* The conversions of jf-utils on their own: a caller applies one of them  *)
(* to fields and an argument of its choice.  They keep no state, so a run   *)
(* is one call.                                                            *)
(***************************************************************************)

\* b + 1
SuccLE(b) ==
    LET k == CHOOSE k \in 1..(Len(b) + 1) :
                 /\ k = Len(b) + 1 \/ b[k] # 255
                 /\ \A j \in 1..(k - 1) : b[j] = 255
    IN  AsSeq([i \in 1..(IF k > Len(b) THEN k ELSE Len(b)) |->
                  IF i < k THEN 0 ELSE IF i = k THEN At(b, i) + 1 ELSE b[i]])

\* 2^k, and 2^k - 1 for k a multiple of 8
Pow2(k) == AsSeq([i \in 1..((k \div 8) + 1) |-> IF i = (k \div 8) + 1 THEN 2^(k % 8) ELSE 0])
Ones(k) == AsSeq([i \in 1..(k \div 8) |-> 255])

ConvFields ==
    {Bls12_377_Fr, Bls12_377_Fq, Bls12_381_Fr, Bls12_381_Fq,
     EdOnBls12_377_Fr, EdOnBls12_381_Fr, Secp256k1_Fq, Secp521r1_Fq}

\* Integers to convert: around every modulus p (p - 1, p, p + 1 and p shifted
\* beyond the limbs of its field), around the powers of two the conversions cut
\* at, and some of no particular shape.
Integers ==
    {<<0>>, <<1>>, <<251>>}
    \cup {Pow2(k) : k \in {8, 247, 248, 250, 252, 253, 255, 256, 376, 384, 520}}
    \cup {Ones(k) : k \in {248, 256, 384}}
    \cup UNION {{[G.modulus EXCEPT ![1] = @ - 1], G.modulus, SuccLE(G.modulus),
                 ZeroBytes(ReprLen(G)) \o G.modulus, Ones(8 * ReprLen(G)) \o <<1>>}
                   : G \in ConvFields}
    \cup {SampleFq(k) : k \in 1..2} \cup {SampleFr(k) : k \in 1..2}

\* The elements of F among them.
Elems ==
    [F \in ConvFields |->
        {Resize(v, ReprLen(F)) : v \in {w \in Integers : LtLE(w, F.modulus)}}]

\* Pairs (source, target) the field-to-field conversions are applied to.
ConvPairs ==
    {<<Bls12_377_Fr, Bls12_377_Fq>>, <<Bls12_377_Fq, Bls12_377_Fr>>,
     <<Bls12_381_Fr, Bls12_381_Fq>>, <<Bls12_381_Fq, Bls12_381_Fr>>,
     <<Bls12_377_Fr, Bls12_377_Fr>>, <<Bls12_377_Fr, EdOnBls12_377_Fr>>,
     <<EdOnBls12_381_Fr, Bls12_381_Fr>>, <<Bls12_381_Fq, Bls12_377_Fq>>,
     <<Bls12_377_Fq, Secp256k1_Fq>>, <<Secp256k1_Fq, Bls12_377_Fr>>,
     <<Secp521r1_Fq, Bls12_377_Fr>>, <<Secp521r1_Fq, Secp256k1_Fq>>}

\* Curves P as (P::ScalarField, P::BaseField): the Edwards curves of the tests,
\* the BLS12 curves, and one whose scalar field is the larger.
Curves ==
    {<<EdOnBls12_377_Fr, Bls12_377_Fr>>, <<EdOnBls12_381_Fr, Bls12_381_Fr>>,
     <<Bls12_377_Fr, Bls12_377_Fq>>, <<Bls12_381_Fr, Bls12_381_Fq>>,
     <<Bls12_381_Fr, Bls12_377_Fr>>}

\* Byte strings: empty, short, one trunk, trunks and a bit, and two that a
\* field of 256 bits cannot tell apart.
ByteStrings ==
    {<<>>, <<0>>, Msg0, Msg0 \o <<0, 0>>, MsgLong, Ones(248), Ones(248) \o <<0>>,
     Ones(256), <<208, 3, 0, 0, 1>>, Ones(376), Ones(376) \o <<7>>,
     Ones(384) \o Msg0, MsgLong \o MsgLong, AsSeq([i \in 1..31 |-> i]),
     AsSeq([i \in 1..62 |-> 3 * i]), AsSeq([i \in 1..65 |-> 255 - i])}

\* A conversion is called and returns (or panics).
Converted(fn, F, T, arg, out) ==
    /\ conv' = [fn |-> fn, F |-> F, T |-> T, arg |-> arg, out |-> out]
    /\ UNCHANGED tvars

FieldSwitching ==
    /\ conv = NoConv
    /\ \E p \in ConvPairs : \E base \in Elems[p[1]] :
        \E r \in {field_switching(p[1], p[2], base)} :
            Converted("field_switching", p[1], p[2], base, r)

FqToFrWithMask ==
    /\ conv = NoConv
    /\ \E p \in ConvPairs : \E base \in Elems[p[1]] :
        \E r \in {fq_to_fr_with_mask(p[1], p[2], base)} :
            Converted("fq_to_fr_with_mask", p[1], p[2], base, r)

\* fr_to_fq and fq_to_fr: F is the base field, T the scalar field of the curve.
FrToFq ==
    /\ conv = NoConv
    /\ \E P \in Curves : \E scalar \in Elems[P[1]] :
        \E r \in {fr_to_fq(P[2], P[1], scalar)} :
            Converted("fr_to_fq", P[2], P[1], scalar, Returned(r))

FqToFr ==
    /\ conv = NoConv
    /\ \E P \in Curves : \E base \in Elems[P[2]] :
        \E r \in {fq_to_fr(P[2], P[1], base)} :
            Converted("fq_to_fr", P[2], P[1], base, Returned(r))

HashToField ==
    /\ conv = NoConv
    /\ \E F \in ConvFields, bytes \in ByteStrings :
        \E r \in {hash_to_field(F, bytes)} :
            Converted("hash_to_field", F, F, bytes, r)

BytesToFieldElements ==
    /\ conv = NoConv
    /\ \E F \in ConvFields, bytes \in ByteStrings :
        \E r \in {bytes_to_field_elements(F, bytes)} :
            Converted("bytes_to_field_elements", F, F, bytes, Returned(r))

InitConv == Init /\ support_lookup(circuit)

NextConv ==
    \/ FieldSwitching
    \/ FqToFrWithMask
    \/ FrToFq
    \/ FqToFr
    \/ HashToField
    \/ BytesToFieldElements

SpecConv == InitConv /\ [][NextConv]_vars

(***************************************************************************)
(* Properties of the challenge derivation                                  *)
(***************************************************************************)

\* The last call was a successful get_and_append_challenge_var, and the two
\* gadget calls it made.
Derivation == last.op = "get_and_append_challenge_var" /\ last.res = "Ok"
SpongeCall == last.gadgets[1]
TruncateCall == last.gadgets[2]

\* C1: as long as the native transcript has been given the same appends and
\* derivations, the two transcripts hold the same values, and each challenge
\* variable derived in the circuit has the value of the native challenge
\* switched into the circuit field.
C1_NativeEquivalence ==
    mirrored =>
        /\ Witnesses(circuit, transcript_var) = transcript.transcript
        /\ Witnesses(circuit, state_var) = transcript.state
        /\ Derivation =>
              witness(circuit, last.ret)
                  = field_switching(last.args.E.Fr, CircuitField, challenge).val

\* A second derivation, after appends, with the native transcript beside it.
C1_Witness ==
    /\ Derivation
    /\ mirrored
    /\ derived.n = 2
    /\ Len(last.pre.transcript_var) > 1
    /\ challenge # ZeroBytes(32)

\* C2: after a successful derivation the buffer holds exactly one element,
\* the challenge variable the call returned, whatever it held before.
C2_BufferIsChallenge ==
    Derivation =>
        /\ Len(transcript_var) = 1
        /\ transcript_var = <<last.ret>>
        /\ last.ret = TruncateCall.out[1]

\* A derivation from a buffer of several elements.
C2_Witness ==
    /\ Derivation
    /\ Len(last.pre.transcript_var) >= 2
    /\ transcript_var = <<last.ret>>

\* C3: a successful derivation calls the sponge gadget on the state followed
\* by the buffer in append order and asks for STATE_SIZE outputs; afterwards the
\* state is the whole output of that call.  From the second derivation on
\* the input is the previous output, the previous challenge variable and
\* the variables appended since.
C3_SpongeInputAndState ==
    Derivation =>
        /\ SpongeCall.name = "rescue_sponge_with_padding"
        /\ SpongeCall.in = last.pre.state_var \o last.pre.transcript_var
        /\ Len(SpongeCall.out) = STATE_SIZE
        /\ state_var = SpongeCall.out
        /\ Witnesses(circuit, state_var)
              = RescueSponge(Witnesses(circuit, last.pre.state_var
                                                    \o last.pre.transcript_var),
                             STATE_SIZE)
        /\ derived.n >= 2 =>
              SpongeCall.in = derived.before.out
                                  \o <<derived.before.challenge_var>>
                                  \o derived.before.since

\* A second derivation with a variable appended since the first.
C3_Witness ==
    /\ Derivation
    /\ derived.n = 2
    /\ derived.before.since # <<>>
    /\ state_var = SpongeCall.out

\* C4: the variable a successful derivation returns is the truncation to 248
\* bits of output slot 0 of the sponge: its value is below 2^248 and below
\* the scalar modulus; it is the variable appended to the buffer; the state
\* keeps the untruncated slot 0.
C4_TruncatedChallenge ==
    Derivation =>
        /\ TruncateCall.name = "truncate"
        /\ TruncateCall.in = <<SpongeCall.out[1]>>
        /\ last.ret = TruncateCall.out[1]
        /\ witness(circuit, last.ret)
              = TruncateBits(witness(circuit, SpongeCall.out[1]), 248)
        /\ \A i \in 32..Len(witness(circuit, last.ret)) :
              witness(circuit, last.ret)[i] = 0
        /\ LtLE(witness(circuit, last.ret), last.args.E.Fr.modulus)
        /\ transcript_var[Len(transcript_var)] = last.ret
        /\ state_var[1] = SpongeCall.out[1]
        /\ last.ret # state_var[1]

\* A derivation whose slot 0 has bits above the 248th, so that the
\* truncation changes the value.
C4_Witness ==
    /\ Derivation
    /\ witness(circuit, state_var[1]) # witness(circuit, last.ret)
    /\ \E i \in 32..48 : witness(circuit, state_var[1])[i] # 0

\* The two messages of ParameterError in get_and_append_challenge_var.
ParameterError ==
    {"does not support range table",
     "Curve Parameter does not support for rescue transcript circuit"}

\* C5: get_and_append_challenge_var returns a parameter error whenever the
\* circuit lacks lookup support or the field sizes of E are not 253 and 377
\* bits; it succeeds only when both checks pass; when it refuses, no gadget
\* has been called and the transcript is as before.
C5_ParameterErrors ==
    last.op = "get_and_append_challenge_var" =>
        LET E == last.args.E
            refused == \/ ~support_lookup(circuit)
                       \/ size_in_bits(E.Fr) # 253
                       \/ size_in_bits(E.Fq) # 377
        IN  /\ refused =>
                  /\ last.res = "Err"
                  /\ last.err \in ParameterError
                  /\ last.gadgets = <<>>
                  /\ Self = last.pre
            /\ last.res = "Ok" => ~refused
            /\ last.gadgets # <<>> => ~refused

\* A call with lookup support refused for the fields of E alone.
C5_Witness ==
    /\ last.op = "get_and_append_challenge_var"
    /\ support_lookup(circuit)
    /\ size_in_bits(last.args.E.Fr) = 253
    /\ size_in_bits(last.args.E.Fq) # 377
    /\ last.res = "Err"
    /\ last.gadgets = <<>>

\* C6: every call ends by returning a value or an error to its caller, and a
\* gadget that fails makes the call return an error: no call panics.
C6_ReturnsValueOrError ==
    /\ last.res \in {"Ok", "Err"}
    /\ \A i \in 1..Len(last.gadgets) :
          last.gadgets[i].res = "Err" => last.res = "Err"

(***************************************************************************)
(* Properties of the append operations                                     *)
(***************************************************************************)

\* C7: append_variable succeeds, adds var as the last element of the buffer
\* with the earlier elements as they were, and leaves the state alone.
C7_AppendVariableFrame ==
    last.op = "append_variable" =>
        /\ last.res = "Ok"
        /\ Len(transcript_var) = Len(last.pre.transcript_var) + 1
        /\ transcript_var[Len(transcript_var)] = last.args[1]
        /\ SubSeq(transcript_var, 1, Len(last.pre.transcript_var))
              = last.pre.transcript_var
        /\ state_var = last.pre.state_var

\* append_variable on a buffer that held two elements or more, one of them
\* another variable than the appended one.
C7_Witness ==
    /\ last.op = "append_variable"
    /\ Len(last.pre.transcript_var) >= 2
    /\ \E i \in 1..Len(last.pre.transcript_var) :
          last.pre.transcript_var[i] # last.args[1]
    /\ transcript_var = Append(last.pre.transcript_var, last.args[1])

\* append_variable called on each element of a sequence, in order.
RECURSIVE AppendEach(_, _)
AppendEach(self, msg_vars) ==
    IF msg_vars = <<>> THEN self
    ELSE AppendEach(append_variable(self, "testing", Head(msg_vars)).self,
                    Tail(msg_vars))

\* C8: append_message_vars leaves the transcript as append_variable on each
\* element in order does: the buffer grows by the elements in the given
\* order, the state is unchanged, and the empty sequence changes nothing.
C8_AppendMessageVars ==
    last.op = "append_message_vars" =>
        /\ last.res = "Ok"
        /\ Self = AppendEach(last.pre, last.args)
        /\ transcript_var = last.pre.transcript_var \o last.args
        /\ state_var = last.pre.state_var
        /\ last.args = <<>> => Self = last.pre

\* A message of two variables appended to a buffer that is not empty.
C8_Witness ==
    /\ last.op = "append_message_vars"
    /\ Len(last.args) = 2
    /\ last.args[1] # last.args[2]
    /\ last.pre.transcript_var # <<>>
    /\ transcript_var = last.pre.transcript_var \o last.args

\* The coordinates x1, y1, ..., xn, yn of a sequence of points.
RECURSIVE Coordinates(_)
Coordinates(points) ==
    IF points = <<>> THEN <<>>
    ELSE <<get_x(Head(points)), get_y(Head(points))>> \o Coordinates(Tail(points))

\* append_commitment_var called on each point of a sequence, in order.
RECURSIVE AppendEachCommitment(_, _)
AppendEachCommitment(self, points) ==
    IF points = <<>> THEN self
    ELSE AppendEachCommitment(
             append_commitment_var(self, "testing", Head(points)).self, Tail(points))

\* C9: append_commitment_var grows the buffer by two elements, x then y;
\* append_commitments_vars grows it by x1, y1, ..., xn, yn, the result of
\* append_commitment_var on each point in order.  The state is unchanged.
C9_AppendCommitments ==
    /\ last.op = "append_commitment_var" =>
          /\ last.res = "Ok"
          /\ transcript_var
                = last.pre.transcript_var \o <<get_x(last.args), get_y(last.args)>>
          /\ state_var = last.pre.state_var
    /\ last.op = "append_commitments_vars" =>
          /\ last.res = "Ok"
          /\ transcript_var = last.pre.transcript_var \o Coordinates(last.args)
          /\ Len(transcript_var) = Len(last.pre.transcript_var) + 2 * Len(last.args)
          /\ Self = AppendEachCommitment(last.pre, last.args)
          /\ state_var = last.pre.state_var

\* Two points appended at once after a single point.
C9_Witness ==
    /\ last.op = "append_commitments_vars"
    /\ Len(last.args) = 2
    /\ Len(last.pre.transcript_var) = 2
    /\ transcript_var = last.pre.transcript_var \o Coordinates(last.args)

\* The variables the convert_to_var calls of the last call returned.
ConvertedVars == AsSeq([i \in 1..Len(last.gadgets) |-> last.gadgets[i].out[1]])

\* C10: a successful append_vk_and_pub_input_vars grows the buffer by
\* 2 * |selector_comms| + 2 * |sigma_comms| + |pub_input| elements: the
\* coordinates of the selector commitments, then of the sigma commitments,
\* then one variable for each public input, converted from it in order; with
\* no commitments and no public input the buffer is unchanged.
C10_AppendVkAndPubInput ==
    (last.op = "append_vk_and_pub_input_vars" /\ last.res = "Ok") =>
        LET vk_var == last.args.vk_var
            pub_input == last.args.pub_input
        IN  /\ Len(transcript_var)
                  = Len(last.pre.transcript_var) + 2 * Len(vk_var.selector_comms)
                      + 2 * Len(vk_var.sigma_comms) + Len(pub_input)
            /\ transcript_var
                  = last.pre.transcript_var \o Coordinates(vk_var.selector_comms)
                      \o Coordinates(vk_var.sigma_comms) \o ConvertedVars
            /\ Len(last.gadgets) = Len(pub_input)
            /\ \A i \in 1..Len(pub_input) :
                  /\ last.gadgets[i].name = "convert_to_var"
                  /\ last.gadgets[i].in = pub_input[i]
                  /\ witness(circuit, ConvertedVars[i]) = witness(circuit, InputVars[i])
            /\ state_var = last.pre.state_var
            /\ (vk_var.selector_comms = <<>> /\ vk_var.sigma_comms = <<>>
                    /\ pub_input = <<>>) => Self = last.pre

\* A verifying key with selector and sigma commitments and two public
\* inputs, appended to a buffer that is not empty.
C10_Witness ==
    /\ last.op = "append_vk_and_pub_input_vars"
    /\ last.res = "Ok"
    /\ Len(last.args.vk_var.selector_comms) = 2
    /\ Len(last.args.vk_var.sigma_comms) = 1
    /\ Len(last.args.pub_input) = 2
    /\ last.pre.transcript_var # <<>>
    /\ Len(transcript_var) = Len(last.pre.transcript_var) + 8

(***************************************************************************)
(* The label                                                               *)
(***************************************************************************)

\* The pairing of BLS12-377, the one get_and_append_challenge_var accepts.
Bls12_377 == [Fr |-> Bls12_377_Fr, Fq |-> Bls12_377_Fq]

\* Every call the caller can make in the current state, under a label: the
\* transcript, the circuit, the gadget calls with their inputs and the
\* returned variable each call would leave.
CallsUnder(label) ==
    [variable |-> [var \in CallerVars |-> append_variable(Self, label, var)],
     challenge |-> [var \in CallerVars |-> append_challenge_var(Self, label, var)],
     message |-> [k \in 1..Len(MsgVars) |-> append_message_vars(Self, label, MsgVars[k])],
     commitment |-> [k \in 1..Len(PointVars) |->
                        append_commitment_var(Self, label, PointVars[k])],
     commitments |-> [points \in PointSeqs |->
                        append_commitments_vars(Self, label, points)],
     derive |-> [E \in Engines |->
                    get_and_append_challenge_var(Self, E, label, circuit, TRUE, TRUE)]]

\* C11: the label has no influence: in every state the two runs share, each
\* call leaves the same state, buffer, sponge input and returned challenge
\* whatever label it is given, so runs that differ in labels alone agree at
\* every step.
C11_LabelIgnored ==
    \A l1 \in Labels, l2 \in Labels : CallsUnder(l1) = CallsUnder(l2)

\* A state after a derivation and an append, from which a derivation under
\* either label succeeds on the same sponge input.
C11_Witness ==
    /\ derived.n >= 1
    /\ Len(transcript_var) >= 2
    /\ support_lookup(circuit)
    /\ CallsUnder("testing").derive[Bls12_377].res = "Ok"
    /\ CallsUnder("plonk").derive[Bls12_377].gadgets[1].in = state_var \o transcript_var

(***************************************************************************)
(* Properties of the conversions                                           *)
(***************************************************************************)

\* C12: field_switching returns the element of T with the integer of x when
\* that integer is below the modulus of T, and panics when it is not.
C12_CheckedSwitch ==
    conv.fn = "field_switching" =>
        IF LtLE(conv.arg, conv.T.modulus)
        THEN /\ ~conv.out.panic
             /\ IsElem(conv.T, conv.out.val)
             /\ EqLE(conv.out.val, conv.arg)
        ELSE conv.out.panic

\* A call of fq_to_fr_with_mask that meets its precondition, a target field
\* smaller in bits than the source field.
MaskCall ==
    /\ conv.fn = "fq_to_fr_with_mask"
    /\ size_in_bits(conv.T) < size_in_bits(conv.F)

C14_MaskIdempotent ==
    (MaskCall /\ ~conv.out.panic) =>
        LET again == fq_to_fr_with_mask(conv.F, conv.T,
                                        Resize(conv.out.val, ReprLen(conv.F)))
        IN  /\ LtLE(conv.out.val, conv.T.modulus)
            /\ LtLE(conv.out.val, conv.F.modulus)
            /\ ~again.panic
            /\ again.val = conv.out.val

\* A call that changed its argument (bits were cleared or the integer was
\* reduced) and whose output is not zero.
C14_Witness ==
    /\ MaskCall
    /\ ~conv.out.panic
    /\ ~EqLE(conv.out.val, conv.arg)
    /\ ~EqLE(conv.out.val, <<0>>)
    /\ fq_to_fr_with_mask(conv.F, conv.T, Resize(conv.out.val, ReprLen(conv.F))).val
          = conv.out.val

\* floor(field_bits / 8), the bytes of a chunk, and ceil(n / d).
ChunkLen(F) == size_in_bits(F) \div 8
CeilDiv(n, d) == CHOOSE c \in 0..n : c * d >= n /\ (c = 0 \/ (c - 1) * d < n)

\* C15: bytes_to_field_elements returns ceil(len / floor(field_bits / 8))
\* elements, none for the empty string, and the same sequence when zero
\* bytes are appended to the input up to the next multiple of the chunk size.
C15_LengthAndPadding ==
    conv.fn = "bytes_to_field_elements" =>
        LET count == CeilDiv(Len(conv.arg), ChunkLen(conv.F))
            room == count * ChunkLen(conv.F) - Len(conv.arg)
        IN  /\ Len(conv.out.val) = count
            /\ conv.arg = <<>> => conv.out.val = <<>>
            /\ \A k \in 0..room :
                  bytes_to_field_elements(conv.F, conv.arg \o ZeroBytes(k)) = conv.out.val

\* An input of more than one chunk that ends inside a chunk.
C15_Witness ==
    /\ conv.fn = "bytes_to_field_elements"
    /\ Len(conv.out.val) = 2
    /\ Len(conv.arg) % ChunkLen(conv.F) # 0
    /\ bytes_to_field_elements(conv.F,
           Resize(conv.arg, 2 * ChunkLen(conv.F))) = conv.out.val

\* The input padded with zeros to whole chunks, and its k-th chunk.
Padded(F, bytes) ==
    Resize(bytes, CeilDiv(Len(bytes), ChunkLen(F)) * ChunkLen(F))
Chunk(F, bytes, k) ==
    SubSeq(Padded(F, bytes), (k - 1) * ChunkLen(F) + 1, k * ChunkLen(F))

\* Every element of the output of the last bytes_to_field_elements has the
\* integer of its chunk, and no other padded input of ByteStrings has the
\* same output.
ChunksDecoded ==
    /\ \A k \in 1..Len(conv.out.val) :
          EqLE(conv.out.val[k], Chunk(conv.F, conv.arg, k))
    /\ \A other \in ByteStrings :
          Padded(conv.F, other) # Padded(conv.F, conv.arg) =>
              bytes_to_field_elements(conv.F, other) # conv.out.val

\* C16, as stated: for every field, each element bytes_to_field_elements
\* returns has the little-endian integer of its chunk, so two different
\* padded inputs never give the same output.
C16_NoReduction ==
    conv.fn = "bytes_to_field_elements" => ChunksDecoded

\* C16, amended: the same, for every field whose bit length is not a
\* multiple of 8.
C16_NoReductionOffBytes ==
    (conv.fn = "bytes_to_field_elements" /\ size_in_bits(conv.F) % 8 # 0) =>
        ChunksDecoded

\* A chunk of the largest integer, 2^248 - 1, decoded into the BLS12-377
\* scalar field.
C16_Witness ==
    /\ conv.fn = "bytes_to_field_elements"
    /\ conv.F = Bls12_377_Fr
    /\ conv.arg = Ones(248)
    /\ Len(conv.out.val) = 1
    /\ EqLE(conv.out.val[1], conv.arg)

\* C17: on a curve whose scalar modulus is at most its base modulus, fr_to_fq
\* returns the element of the base field with the integer of its argument.
\* (conv.T is the scalar field, conv.F the base field.)
C17_ScalarToBase ==
    (conv.fn = "fr_to_fq" /\ ~LtLE(conv.F.modulus, conv.T.modulus)) =>
        /\ ~conv.out.panic
        /\ IsElem(conv.F, conv.out.val)
        /\ EqLE(conv.out.val, conv.arg)

\* The largest scalar of jubjub377, which is not a palindrome of bytes,
\* taken into the BLS12-377 scalar field.
C17_Witness ==
    /\ conv.fn = "fr_to_fq"
    /\ conv.T = EdOnBls12_377_Fr
    /\ conv.F = Bls12_377_Fr
    /\ conv.arg = [EdOnBls12_377_Fr.modulus EXCEPT ![1] = @ - 1]
    /\ EqLE(conv.out.val, conv.arg)

\* On the curve whose scalar field is the larger one, the precondition of
\* C17 matters: a scalar at or above the base modulus comes out reduced.
C17_PreconditionMatters ==
    /\ conv.fn = "fr_to_fq"
    /\ LtLE(conv.F.modulus, conv.T.modulus)
    /\ ~EqLE(conv.out.val, conv.arg)

\* The bytes of the digest hash_to_field is said to reduce: the first
\* ceil(field_bits/8) + 16 of them.
DigestPrefix ==
    SubSeq(Sha512(conv.arg), 1, (size_in_bits(conv.F) + 7) \div 8 + 16)

HashReduced ==
    /\ ~conv.out.panic
    /\ IsElem(conv.F, conv.out.val)
    /\ Len(Sha512(conv.arg)) = 64
    /\ Len(DigestPrefix) = (size_in_bits(conv.F) + 7) \div 8 + 16
    /\ EqLE(conv.out.val, ModLE(DigestPrefix, conv.F.modulus))

\* C18 as stated: for every byte string and every prime field hash_to_field
\* returns, without aborting, the first ceil(field_bits/8) + 16 bytes of the
\* 64-byte digest reduced modulo the field's modulus.
C18_HashInfallible == (conv.fn = "hash_to_field") => HashReduced

\* C18: the same for every prime field of at most 384 bits, for which the
\* digest has ceil(field_bits/8) + 16 bytes to give.
C18_HashWithinDigest ==
    (conv.fn = "hash_to_field" /\ size_in_bits(conv.F) <= 384) => HashReduced

\* A hash into a field of at most 384 bits whose digest prefix is above the
\* modulus, so that the reduction changes it.
C18_Witness ==
    /\ conv.fn = "hash_to_field"
    /\ size_in_bits(conv.F) <= 384
    /\ Len(conv.arg) > 0
    /\ ~conv.out.panic
    /\ ~LtLE(DigestPrefix, conv.F.modulus)
    /\ EqLE(conv.out.val, ModLE(DigestPrefix, conv.F.modulus))

(***************************************************************************)
(* Proof evaluations, and a challenge request that fails                   *)
(***************************************************************************)

\* The evaluations of a record in the order the claim gives.
EvalsInOrder(evals) ==
    evals.wires_evals \o evals.wire_sigma_evals \o <<evals.perm_next_eval>>

\* C19: a successful append_proof_evaluations_vars grows the buffer by
\* |wires_evals| + |wire_sigma_evals| + 1 elements: one variable converted
\* from each wire evaluation in order, then one from each sigma evaluation in
\* order, then one from the next-round permutation evaluation; the state is
\* unchanged.
C19_AppendProofEvaluations ==
    (last.op = "append_proof_evaluations_vars" /\ last.res = "Ok") =>
        LET evals == EvalsInOrder(last.args)
        IN  /\ Len(transcript_var)
                  = Len(last.pre.transcript_var) + Len(last.args.wires_evals)
                      + Len(last.args.wire_sigma_evals) + 1
            /\ transcript_var = last.pre.transcript_var \o ConvertedVars
            /\ Len(last.gadgets) = Len(evals)
            /\ \A i \in 1..Len(evals) :
                  /\ last.gadgets[i].name = "convert_to_var"
                  /\ last.gadgets[i].res = "Ok"
                  /\ last.gadgets[i].in = evals[i]
                  /\ \A j \in 1..Len(InputFpElemVars) :
                        evals[i] = InputFpElemVars[j] =>
                            witness(circuit, ConvertedVars[i])
                                = witness(circuit, InputVars[j])
            /\ state_var = last.pre.state_var

\* Two wire evaluations and a sigma evaluation, not all of the same value,
\* appended to a buffer that is not empty.
C19_Witness ==
    /\ last.op = "append_proof_evaluations_vars"
    /\ last.res = "Ok"
    /\ Len(last.args.wires_evals) = 2
    /\ Len(last.args.wire_sigma_evals) = 1
    /\ last.args.wires_evals[1] # last.args.wire_sigma_evals[1]
    /\ last.pre.transcript_var # <<>>
    /\ Len(transcript_var) = Len(last.pre.transcript_var) + 4
    /\ witness(circuit, transcript_var[Len(transcript_var) - 1])
          # witness(circuit, transcript_var[Len(transcript_var)])

\* C20: when get_and_append_challenge_var returns an error (no lookup
\* support, fields of the wrong sizes, or the truncation fails), the state
\* and the buffer are those before the call: the pending variables are
\* neither cleared nor absorbed, also when the sponge has run on the circuit.
C20_ErrorLeavesTranscript ==
    (last.op = "get_and_append_challenge_var" /\ last.res = "Err") =>
        /\ transcript_var = last.pre.transcript_var
        /\ state_var = last.pre.state_var
        /\ \/ last.err \in ParameterError /\ last.gadgets = <<>>
           \/ /\ last.err = "truncate"
              /\ Len(last.gadgets) = 2
              /\ last.gadgets[1].name = "rescue_sponge_with_padding"
              /\ last.gadgets[1].res = "Ok"
              /\ last.gadgets[1].in = state_var \o transcript_var
              /\ last.gadgets[2].res = "Err"

\* The truncation fails after the sponge has run, on a transcript with
\* pending variables and a state set by an earlier derivation.
C20_Witness ==
    /\ last.op = "get_and_append_challenge_var"
    /\ last.res = "Err"
    /\ last.err = "truncate"
    /\ last.gadgets[1].res = "Ok"
    /\ last.gadgets[1].out # last.pre.state_var
    /\ derived.n >= 1
    /\ Len(transcript_var) >= 2
    /\ Self = last.pre

(***************************************************************************)
(* An append that fails part of the way                                    *)
(***************************************************************************)

\* The conversions the last call made before the one that failed.
ConvertedBefore == Len(last.gadgets) - 1

\* The variables a run of n conversions creates on the circuit as it was
\* before the last call: fresh ones, numbered from its num_vars on.
FreshVars(n) ==
    AsSeq([i \in 1..n |-> num_vars(circuit) - ConvertedBefore + i - 1])

\* What the last call would have appended had every conversion succeeded.
WouldAppend ==
    IF last.op = "append_vk_and_pub_input_vars"
    THEN Coordinates(last.args.vk_var.selector_comms)
            \o Coordinates(last.args.vk_var.sigma_comms)
            \o FreshVars(Len(last.args.pub_input))
    ELSE FreshVars(Len(EvalsInOrder(last.args)))

\* What the last call has appended.
Appended ==
    SubSeq(transcript_var, Len(last.pre.transcript_var) + 1, Len(transcript_var))

\* C21: when append_vk_and_pub_input_vars or append_proof_evaluations_vars
\* returns an error because a conversion fails, the state is unchanged and
\* the buffer is the buffer before the call followed by a proper prefix of
\* what a successful call would have appended: all that was pushed before
\* the failing conversion, and nothing of what was there removed or moved.
C21_PartialAppend ==
    (/\ last.op \in {"append_vk_and_pub_input_vars", "append_proof_evaluations_vars"}
     /\ last.res = "Err") =>
        /\ state_var = last.pre.state_var
        /\ Len(transcript_var) >= Len(last.pre.transcript_var)
        /\ SubSeq(transcript_var, 1, Len(last.pre.transcript_var))
              = last.pre.transcript_var
        /\ Len(Appended) < Len(WouldAppend)
        /\ Appended = SubSeq(WouldAppend, 1, Len(Appended))
        /\ last.gadgets # <<>>
        /\ last.gadgets[Len(last.gadgets)].res = "Err"
        /\ \A i \in 1..ConvertedBefore : last.gadgets[i].res = "Ok"
        /\ Len(Appended) = Len(WouldAppend)
              - (IF last.op = "append_vk_and_pub_input_vars"
                 THEN Len(last.args.pub_input)
                 ELSE Len(EvalsInOrder(last.args)))
              + ConvertedBefore
        /\ SubSeq(Appended, Len(Appended) - ConvertedBefore + 1, Len(Appended))
              = SubSeq(ConvertedVars, 1, ConvertedBefore)

\* The second public input fails to convert: the coordinates of three
\* commitments and the first public input stay after a buffer that was not
\* empty.
C21_Witness ==
    /\ last.op = "append_vk_and_pub_input_vars"
    /\ last.res = "Err"
    /\ Len(last.args.vk_var.selector_comms) = 2
    /\ Len(last.args.pub_input) = 2
    /\ ConvertedBefore = 1
    /\ last.pre.transcript_var # <<>>
    /\ Len(transcript_var) = Len(last.pre.transcript_var) + 7
    /\ transcript_var[Len(transcript_var)] = last.gadgets[1].out[1]

\* The sigma evaluation fails to convert: the two wire evaluations stay.
C21_WitnessEvals ==
    /\ last.op = "append_proof_evaluations_vars"
    /\ last.res = "Err"
    /\ ConvertedBefore = 2
    /\ last.pre.transcript_var # <<>>
    /\ Len(transcript_var) = Len(last.pre.transcript_var) + 2

=============================================================================
